---- MODULE Spec2Model ----
(***************************************************************************)
(* A model of python-sqlalchemyobjects: the DatabaseFile handle            *)
(* (database/databasefile.py), the components that forward to it           *)
(* (database/components/*.py) and the singleton table idiom                *)
(* (tables/base/basesingletontable.py).                                    *)
(*                                                                         *)
(* Python object references are modelled as numbers: None is 0, and an     *)
(* engine is the number of the create_engine call that built it (its       *)
(* generation).  The synchronous and the asynchronous engine built by one  *)
(* call share the generation; a session factory is the generation of the   *)
(* engine it was built on.                                                 *)
(*                                                                         *)
(* Modelling assumptions about the libraries the code calls: the engine    *)
(* constructors succeed whenever the path is set, Engine.dispose succeeds, *)
(* and close() runs outside a running event loop (asyncio.run succeeds).   *)
(* Failures that the handle's own state decides are modelled: a None path  *)
(* (None.as_posix()), a None schema (None.metadata), a None session        *)
(* factory (None()).                                                       *)
(***************************************************************************)
EXTENDS Integers, Sequences, FiniteSets, TLC

\* ------------------------------------------------------------------ bounds
\* The number of create_engine calls a behaviour may make.
MaxEngines == 3

\* ------------------------------------------------------------- value sets
\* Python's None, for object references (engines, session factories).
None == 0
\* The path attribute when it is None.
NoPath == "None"
Paths == {"a.db", "b.db"}
\* No exception raised.
NoExc == ""

VARIABLES
    db,         \* the DatabaseFile object and the engines it has built
    phase,      \* "new" before construct, "live", "failed" (construct raised), "collected"
    composite,  \* the component's _composite: "None", "alive" or "dead" (weakref)
    last,       \* the last call: its name, its outcome and what it returned
    table,      \* the singleton table's committed rows: row id -> columns
    sess,       \* per session: whether a transaction is begun, and its uncommitted rows
    call,       \* per session: the table call in progress or last completed
    urows,      \* the update-tracked table's rows: row number -> columns
    ucall       \* the last call on the update-tracked table

hvars == <<db, phase, composite, last>>
tvars == <<table, sess, call>>
uvars == <<urows, ucall>>
vars == <<db, phase, composite, last, table, sess, call, urows, ucall>>

\* ------------------------------------------------------------ DatabaseFile
\* The table registries handed to construct: none (Python's None), or one
\* naming a table.
NoTables == {"None"}
Registries == {{"items"}}

\* The class attributes: the state of an object before construct runs.
\* urls[g] is the path engine generation g is bound to; disposed and
\* async_disposed are the generations whose dispose() has run; files are the
\* paths metadata.create_all has bootstrapped.
DatabaseFile ==
    [path |-> NoPath, schema |-> FALSE, tables |-> {},
     engine |-> None, async_engine |-> None,
     session_maker |-> None, async_session_maker |-> None,
     urls |-> <<>>, disposed |-> {}, async_disposed |-> {}, files |-> {},
     exc |-> NoExc]

\* is_open: both engines are set.
is_open(self) == self.engine # None /\ self.async_engine # None

\* A create_engine that forgets the asynchronous engine.
create_engine_sync_only(self) ==
    IF self.path = NoPath
    THEN [self EXCEPT !.exc = "AttributeError"]
    ELSE [self EXCEPT !.urls = Append(@, self.path), !.engine = Len(self.urls) + 1]

\* create_engine: both engines are rebuilt on the current path; a None path
\* raises before anything is assigned.
create_engine(self) ==
    IF self.path = NoPath
    THEN [self EXCEPT !.exc = "AttributeError"]
    ELSE LET g == Len(self.urls) + 1
         IN [self EXCEPT !.urls = Append(@, self.path),
                         !.engine = g,
                         !.async_engine = g]

build_session_maker(self) == [self EXCEPT !.session_maker = self.engine]

build_async_session_maker(self) == [self EXCEPT !.async_session_maker = self.async_engine]

\* open: create_engine, then both session factories.
open(self) ==
    LET s1 == create_engine(self)
    IN IF s1.exc # NoExc THEN s1
       ELSE build_async_session_maker(build_session_maker(s1))

\* close: disposes and nulls each engine that is set, nulls both factories.
close(self) ==
    LET s1 == IF self.engine # None
              THEN [self EXCEPT !.disposed = @ \cup {self.engine}, !.engine = None]
              ELSE self
        s2 == [s1 EXCEPT !.session_maker = None]
        s3 == IF s2.async_engine # None
              THEN [s2 EXCEPT !.async_disposed = @ \cup {s2.async_engine},
                              !.async_engine = None]
              ELSE s2
    IN [s3 EXCEPT !.async_session_maker = None]

\* close_async: as close, but the synchronous factory is not touched.
close_async(self) ==
    LET s1 == IF self.engine # None
              THEN [self EXCEPT !.disposed = @ \cup {self.engine}, !.engine = None]
              ELSE self
        s2 == IF s1.async_engine # None
              THEN [s1 EXCEPT !.async_disposed = @ \cup {s1.async_engine},
                              !.async_engine = None]
              ELSE s1
    IN [s2 EXCEPT !.async_session_maker = None]

\* The value close and close_async return: self._engine is None, afterwards.
closed_ret(self) == self.engine = None

\* The path setter (p is never None here: the callers test it first).
set_path(self, p) == [self EXCEPT !.path = p]

\* metadata.create_all on the synchronous engine; a None schema raises.
create_all(self, g) ==
    IF ~self.schema
    THEN [self EXCEPT !.exc = "AttributeError"]
    ELSE [self EXCEPT !.files = @ \cup {self.urls[g]}]

\* create_file(path): p = NoPath stands for path=None.
create_file(self, p) ==
    LET s1 == IF p # NoPath THEN set_path(self, p) ELSE self
        s2 == IF s1.engine = None \/ p # NoPath THEN create_engine(s1) ELSE s1
    IN IF s2.exc # NoExc THEN s2 ELSE create_all(s2, s2.engine)

\* create_file_async(path): the test is on the asynchronous engine and the
\* tables are created through it.
create_file_async(self, p) ==
    LET s1 == IF p # NoPath THEN set_path(self, p) ELSE self
        s2 == IF s1.async_engine = None \/ p # NoPath THEN create_engine(s1) ELSE s1
    IN IF s2.exc # NoExc THEN s2 ELSE create_all(s2, s2.async_engine)

\* A construct that leaves the handle as create_file left it.
construct_without_close(self, p, sch, tables, open_, create) ==
    LET s1 == IF p # NoPath THEN set_path(self, p) ELSE self
        s1b == IF sch THEN [s1 EXCEPT !.schema = TRUE] ELSE s1
        s2 == IF tables # NoTables THEN [s1b EXCEPT !.tables = tables] ELSE s1b
        s3 == IF create THEN create_file(s2, NoPath) ELSE s2
    IN IF s3.exc # NoExc THEN s3
       ELSE IF open_ THEN open(s3) ELSE s3

\* construct(path, schema, tables, open_, create).
construct(self, p, sch, tables, open_, create) ==
    LET s1 == IF p # NoPath THEN set_path(self, p) ELSE self
        s1b == IF sch THEN [s1 EXCEPT !.schema = TRUE] ELSE s1
        s2 == IF tables # NoTables THEN [s1b EXCEPT !.tables = tables] ELSE s1b
        s3 == IF create
              THEN LET c == create_file(s2, NoPath)
                   IN IF c.exc # NoExc THEN c ELSE close(c)
              ELSE s2
    IN IF s3.exc # NoExc THEN s3
       ELSE IF open_ THEN open(s3) ELSE s3

\* The four attributes that hold live engine and session factory objects.
Live == {"_engine", "_async_engine", "_session_maker", "_async_session_maker"}

\* The object's attribute dictionary, which the base __getstate__ copies.
instance_dict(self) ==
    [_path |-> self.path, schema |-> self.schema, tables |-> self.tables,
     _engine |-> self.engine, _async_engine |-> self.async_engine,
     _session_maker |-> self.session_maker,
     _async_session_maker |-> self.async_session_maker]

\* A __getstate__ that leaves the engines in the state.
getstate_with_engines(self) ==
    LET state == instance_dict(self)
        kept == DOMAIN state \ {"_session_maker", "_async_session_maker"}
    IN [n \in kept \cup {"is_open"} |->
           IF n = "is_open" THEN is_open(self) ELSE state[n]]

\* __getstate__(): the attribute dictionary with is_open added and the four
\* live attributes deleted.
getstate(self) ==
    LET state == instance_dict(self)
        kept == DOMAIN state \ Live
    IN [n \in kept \cup {"is_open"} |->
           IF n = "is_open" THEN is_open(self) ELSE state[n]]

\* The object unpickling starts from: the class attributes, in a world
\* that keeps the engines built and the files bootstrapped so far.
blank(self) ==
    [DatabaseFile EXCEPT !.urls = self.urls, !.disposed = self.disposed,
                         !.async_disposed = self.async_disposed,
                         !.files = self.files]

\* __setstate__(state): pops is_open, takes the attributes from the state,
\* and opens when is_open was set.
setstate(self, state) ==
    LET was_open == state["is_open"]
        Attr(n, default) == IF n \in DOMAIN state THEN state[n] ELSE default
        s1 == [self EXCEPT !.path = Attr("_path", self.path),
                           !.schema = Attr("schema", self.schema),
                           !.tables = Attr("tables", self.tables),
                           !.engine = Attr("_engine", self.engine),
                           !.async_engine = Attr("_async_engine", self.async_engine),
                           !.session_maker = Attr("_session_maker", self.session_maker),
                           !.async_session_maker =
                               Attr("_async_session_maker", self.async_session_maker)]
    IN IF was_open THEN open(s1) ELSE s1

\* A session: how it was built and the engine generation it is bound to.
NoSession == [kind |-> "none", engine |-> None, async |-> FALSE]

\* A create_session without the is_open guard.
create_session_unguarded(self, has_args) ==
    IF has_args
    THEN [exc |-> NoExc,
          session |-> [kind |-> "direct", engine |-> self.engine, async |-> FALSE]]
    ELSE IF self.session_maker = None
    THEN [exc |-> "TypeError", session |-> NoSession]
    ELSE [exc |-> NoExc,
          session |-> [kind |-> "factory", engine |-> self.session_maker, async |-> FALSE]]

\* create_session(*args, **kwargs): has_args says whether any argument was
\* given.  The result is the exception raised and the session returned.
create_session(self, has_args) ==
    IF ~is_open(self)
    THEN [exc |-> "IOError", session |-> NoSession]
    ELSE IF has_args
    THEN [exc |-> NoExc,
          session |-> [kind |-> "direct", engine |-> self.engine, async |-> FALSE]]
    ELSE IF self.session_maker = None
    THEN [exc |-> "TypeError", session |-> NoSession]
    ELSE [exc |-> NoExc,
          session |-> [kind |-> "factory", engine |-> self.session_maker, async |-> FALSE]]

create_async_session(self, has_args) ==
    IF ~is_open(self)
    THEN [exc |-> "IOError", session |-> NoSession]
    ELSE IF has_args
    THEN [exc |-> NoExc,
          session |-> [kind |-> "direct", engine |-> self.async_engine, async |-> TRUE]]
    ELSE IF self.async_session_maker = None
    THEN [exc |-> "TypeError", session |-> NoSession]
    ELSE [exc |-> NoExc,
          session |-> [kind |-> "factory", engine |-> self.async_session_maker,
                       async |-> TRUE]]

\* ------------------------------------------------- table and session values
\* The sessions of the model, the columns of the table besides id, and the
\* values a caller writes.  A dict (entry, kwargs) is a function from some
\* of the keys to values; a row gives every column a value or None.
Sessions == {"s1", "s2"}
Keys == {"value", "note"}
Values == {1, 2}
Dicts == UNION {[D -> Values] : D \in SUBSET Keys}
\* The keyword arguments the callers of the model pass beside the entry.
Kwargs == UNION {[D -> Values] : D \in SUBSET {"value"}}
EmptyDict == [k \in {} |-> None]

\* What get_entry returns: the entry dict, the row object, or {} for no row.
NoReturn == [kind |-> "none", id |-> None, entry |-> EmptyDict]

\* A session with no transaction begun and nothing uncommitted.
NewSession == [in_tx |-> FALSE, pending |-> EmptyDict]

\* No call made yet.
NoCall ==
    [pc |-> "idle", op |-> "none", begin |-> FALSE, as_entry |-> FALSE,
     entry |-> EmptyDict, kwargs |-> EmptyDict, result |-> None,
     exc |-> NoExc, ret |-> NoReturn]

TInit ==
    /\ table = EmptyDict
    /\ sess = [s \in Sessions |-> NewSession]
    /\ call = [s \in Sessions |-> NoCall]

\* ---------------------------------------------- update-tracked table values
MaxRows == 2

\* update_id = mapped_column(BigInteger, default=0)
default_update_id == 0

\* The update ids writers assign, and Python's None where an update id is
\* expected (no row carries a negative update id here).
UpdateIds == 0..2
NoUpdateId == -1

\* The thresholds asked for: every update id, one below and one above.
Thresholds == -1..3

\* A row's columns: one column of the base row type and the update id.
UpdateKeys == {"value", "update_id"}

\* The mappings and keyword arguments handed to insert and update.
UpdateDicts ==
    (UNION {[D -> {1}] : D \in SUBSET {"value"}})
    \cup {[k \in {"update_id"} |-> u] : u \in {NoUpdateId, 1, 2}}
    \cup {[k \in UpdateKeys |-> IF k = "value" THEN 1 ELSE u] : u \in {NoUpdateId, 1, 2}}
UpdateKwargs ==
    {EmptyDict} \cup {[k \in {"update_id"} |-> u] : u \in {NoUpdateId, 2}}

\* What get_from_update returned: the engine's result over the matching
\* rows, or the list of their entries.
NoResult == [kind |-> "none", ids |-> {}, entries |-> EmptyDict]

NoUpdateCall ==
    [op |-> "none", is_async |-> FALSE, update_id |-> NoUpdateId,
     inclusive |-> FALSE, as_entries |-> FALSE, row |-> None,
     dict_ |-> EmptyDict, kwargs |-> EmptyDict, before |-> EmptyDict,
     ret |-> NoResult, last_id |-> NoUpdateId,
     exc |-> NoExc, has_session |-> FALSE, created |-> 0, closed |-> 0]

UInit ==
    /\ urows = EmptyDict
    /\ ucall = NoUpdateCall

\* ------------------------------------------------------------------ state
\* What a call left behind: its name, whether it was given arguments, the
\* exception it raised (NoExc when it returned), the boolean it returned and
\* the session it returned.
Call(op, has_args, exc, flag, session) ==
    [op |-> op, has_args |-> has_args, exc |-> exc, flag |-> flag, session |-> session]

\* An exception leaves the attributes assigned before it; the transient exc
\* field is cleared once the call is recorded.
Settled(self) == [self EXCEPT !.exc = NoExc]

Init ==
    /\ db = DatabaseFile
    /\ phase = "new"
    /\ composite = "None"
    /\ last = Call("none", FALSE, NoExc, FALSE, NoSession)
    /\ TInit
    /\ UInit

\* __init__ -> construct.  An exception out of __init__ leaves no object.
Construct(p, sch, tables, open_, create) ==
    /\ phase = "new"
    /\ LET s == construct(db, p, sch, tables, open_, create)
       IN /\ Len(s.urls) <= MaxEngines
          /\ db' = Settled(s)
          /\ phase' = IF s.exc = NoExc THEN "live" ELSE "failed"
          /\ last' = Call("construct", FALSE, s.exc, FALSE, NoSession)
    /\ UNCHANGED composite
    /\ UNCHANGED <<tvars, uvars>>

\* pickle.loads(pickle.dumps(db)): the handle is replaced by the one rebuilt
\* from its state.  The flag recorded is the state's is_open.  Components
\* refer to their handle weakly and are not carried along.
Restore ==
    /\ phase = "live"
    /\ composite = "None"
    /\ LET state == getstate(db)
           s == setstate(blank(db), state)
       IN /\ Len(s.urls) <= MaxEngines
          /\ db' = Settled(s)
          /\ last' = Call("setstate", FALSE, s.exc, state["is_open"], NoSession)
    /\ UNCHANGED <<phase, composite>>
    /\ UNCHANGED <<tvars, uvars>>

SetPath(p) ==
    /\ phase = "live"
    /\ db' = set_path(db, p)
    /\ last' = Call("path", FALSE, NoExc, FALSE, NoSession)
    /\ UNCHANGED <<phase, composite>>
    /\ UNCHANGED <<tvars, uvars>>

CreateFile(p) ==
    /\ phase = "live"
    /\ LET s == create_file(db, p)
       IN /\ Len(s.urls) <= MaxEngines
          /\ db' = Settled(s)
          /\ last' = Call("create_file", FALSE, s.exc, FALSE, NoSession)
    /\ UNCHANGED <<phase, composite>>
    /\ UNCHANGED <<tvars, uvars>>

CreateFileAsync(p) ==
    /\ phase = "live"
    /\ LET s == create_file_async(db, p)
       IN /\ Len(s.urls) <= MaxEngines
          /\ db' = Settled(s)
          /\ last' = Call("create_file_async", FALSE, s.exc, FALSE, NoSession)
    /\ UNCHANGED <<phase, composite>>
    /\ UNCHANGED <<tvars, uvars>>

Open ==
    /\ phase = "live"
    /\ LET s == open(db)
       IN /\ Len(s.urls) <= MaxEngines
          /\ db' = Settled(s)
          /\ last' = Call("open", FALSE, s.exc, FALSE, NoSession)
    /\ UNCHANGED <<phase, composite>>
    /\ UNCHANGED <<tvars, uvars>>

Close ==
    /\ phase = "live"
    /\ db' = close(db)
    /\ last' = Call("close", FALSE, NoExc, closed_ret(close(db)), NoSession)
    /\ UNCHANGED <<phase, composite>>
    /\ UNCHANGED <<tvars, uvars>>

CloseAsync ==
    /\ phase = "live"
    /\ db' = close_async(db)
    /\ last' = Call("close_async", FALSE, NoExc, closed_ret(close_async(db)), NoSession)
    /\ UNCHANGED <<phase, composite>>
    /\ UNCHANGED <<tvars, uvars>>

CreateEngine ==
    /\ phase = "live"
    /\ LET s == create_engine(db)
       IN /\ Len(s.urls) <= MaxEngines
          /\ db' = Settled(s)
          /\ last' = Call("create_engine", FALSE, s.exc, FALSE, NoSession)
    /\ UNCHANGED <<phase, composite>>
    /\ UNCHANGED <<tvars, uvars>>

CreateSession(has_args) ==
    /\ phase = "live"
    /\ LET r == create_session(db, has_args)
       IN last' = Call("create_session", has_args, r.exc, FALSE, r.session)
    /\ UNCHANGED <<db, phase, composite>>
    /\ UNCHANGED <<tvars, uvars>>

CreateAsyncSession(has_args) ==
    /\ phase = "live"
    /\ LET r == create_async_session(db, has_args)
       IN last' = Call("create_async_session", has_args, r.exc, FALSE, r.session)
    /\ UNCHANGED <<db, phase, composite>>
    /\ UNCHANGED <<tvars, uvars>>

\* ------------------------------------------------------------- components
\* A component is attached to the live handle: _composite is a weak
\* reference to it.
Attach ==
    /\ phase = "live"
    /\ composite = "None"
    /\ composite' = "alive"
    /\ last' = Call("attach", FALSE, NoExc, FALSE, NoSession)
    /\ UNCHANGED <<db, phase>>
    /\ UNCHANGED <<tvars, uvars>>

\* The handle is dropped by its holder: the weak reference goes dead.
Collect ==
    /\ phase = "live"
    /\ phase' = "collected"
    /\ composite' = IF composite = "alive" THEN "dead" ELSE composite
    /\ last' = Call("collect", FALSE, NoExc, FALSE, NoSession)
    /\ UNCHANGED db
    /\ UNCHANGED <<tvars, uvars>>

\* BaseDatabaseComponent.create_session: self._composite().create_session(...).
\* A None _composite is not callable; a dead reference returns None, which
\* has no create_session.
component_create_session(ref, self, has_args) ==
    IF ref = "None" THEN [exc |-> "TypeError", session |-> NoSession]
    ELSE IF ref = "dead" THEN [exc |-> "AttributeError", session |-> NoSession]
    ELSE create_session(self, has_args)

component_create_async_session(ref, self, has_args) ==
    IF ref = "None" THEN [exc |-> "TypeError", session |-> NoSession]
    ELSE IF ref = "dead" THEN [exc |-> "AttributeError", session |-> NoSession]
    ELSE create_async_session(self, has_args)

ComponentCreateSession(has_args) ==
    /\ phase \in {"live", "collected"}
    /\ LET r == component_create_session(composite, db, has_args)
       IN last' = Call("component.create_session", has_args, r.exc, FALSE, r.session)
    /\ UNCHANGED <<db, phase, composite>>
    /\ UNCHANGED <<tvars, uvars>>

ComponentCreateAsyncSession(has_args) ==
    /\ phase \in {"live", "collected"}
    /\ LET r == component_create_async_session(composite, db, has_args)
       IN last' = Call("component.create_async_session", has_args, r.exc, FALSE, r.session)
    /\ UNCHANGED <<db, phase, composite>>
    /\ UNCHANGED <<tvars, uvars>>

Next ==
    \/ \E p \in Paths \cup {NoPath}, sch \in BOOLEAN, o \in BOOLEAN, c \in BOOLEAN :
          \E t \in Registries : Construct(p, sch, t, o, c)
    \/ \E p \in Paths : SetPath(p)
    \/ \E p \in Paths \cup {NoPath} : CreateFile(p)
    \/ \E p \in Paths \cup {NoPath} : CreateFileAsync(p)
    \/ Open
    \/ Close
    \/ CloseAsync
    \/ CreateEngine
    \/ \E a \in BOOLEAN : CreateSession(a)
    \/ \E a \in BOOLEAN : CreateAsyncSession(a)
    \/ Attach
    \/ Collect
    \/ \E a \in BOOLEAN : ComponentCreateSession(a)
    \/ \E a \in BOOLEAN : ComponentCreateAsyncSession(a)

Spec == Init /\ [][Next]_vars

\* The handle under the calls that change it, and pickling.
NextPickle ==
    \/ \E p \in Paths \cup {NoPath}, sch \in BOOLEAN, o \in BOOLEAN, c \in BOOLEAN :
          \E t \in Registries \cup {NoTables} : Construct(p, sch, t, o, c)
    \/ Restore
    \/ \E p \in Paths : SetPath(p)
    \/ \E p \in Paths \cup {NoPath} : CreateFile(p)
    \/ \E p \in Paths \cup {NoPath} : CreateFileAsync(p)
    \/ Open
    \/ Close
    \/ CloseAsync
    \/ CreateEngine

SpecPickle == Init /\ [][NextPickle]_vars

\* The handle under open, create_file, create_file_async, create_engine and
\* close, and the sessions it hands out.
NextPairing ==
    \/ \E p \in Paths \cup {NoPath}, sch \in BOOLEAN, o \in BOOLEAN, c \in BOOLEAN :
          \E t \in Registries : Construct(p, sch, t, o, c)
    \/ \E p \in Paths \cup {NoPath} : CreateFile(p)
    \/ \E p \in Paths \cup {NoPath} : CreateFileAsync(p)
    \/ Open
    \/ Close
    \/ CreateEngine
    \/ \E a \in BOOLEAN : CreateSession(a)
    \/ \E a \in BOOLEAN : CreateAsyncSession(a)

SpecPairing == Init /\ [][NextPairing]_vars

\* ------------------------------------------------------- BaseSingletonTable
\* What a session sees: the committed rows, overlaid by the rows it has
\* added or changed and not yet committed (they are flushed before each of
\* its queries).
View(s) ==
    [i \in DOMAIN table \cup DOMAIN sess[s].pending |->
        IF i \in DOMAIN sess[s].pending THEN sess[s].pending[i] ELSE table[i]]

\* The id of a new row (a fresh UUID): the least number no row carries.
FreshId ==
    LET used == DOMAIN table \cup UNION {DOMAIN sess[s].pending : s \in Sessions}
    IN CHOOSE i \in 1..(Cardinality(used) + 1) : i \notin used

\* dict_ | kwargs: the keyword arguments win.
merge(entry, kwargs) ==
    [k \in DOMAIN entry \cup DOMAIN kwargs |->
        IF k \in DOMAIN kwargs THEN kwargs[k] ELSE entry[k]]

\* BaseTable.insert(session, entry, as_entry=True, begin=False, **kwargs):
\* adds one new row built from the merged fields to the session.
insert(pending, id, entry, kwargs) ==
    LET d == merge(entry, kwargs)
        row == [k \in Keys |-> IF k \in DOMAIN d THEN d[k] ELSE None]
    IN [i \in DOMAIN pending \cup {id} |-> IF i = id THEN row ELSE pending[i]]

\* BaseTable.update(dict_, **kwargs): sets the merged fields on the row.
update(row, entry, kwargs) ==
    LET d == merge(entry, kwargs)
    IN [k \in Keys |-> IF k \in DOMAIN d THEN d[k] ELSE row[k]]

\* BaseTable.as_entry(): the row's columns as a dict.
as_entry(row) == row

\* session.execute(select(cls)).scalar(): the first row of the result, or
\* None when there is none; the engine fixes no order, so any row may be
\* first.
scalar(view) == IF DOMAIN view = {} THEN {None} ELSE DOMAIN view

\* A create_entry that never looks at the query's result.
create_entry_always_insert(view, pending, result, id, entry, kwargs) ==
    [exc |-> NoExc, pending |-> insert(pending, id, entry, kwargs)]

\* A create_entry that looks at the table again when it writes.
create_entry_rechecked(view, pending, result, id, entry, kwargs) ==
    IF DOMAIN view = {}
    THEN [exc |-> NoExc, pending |-> insert(pending, id, entry, kwargs)]
    ELSE LET found == CHOOSE i \in DOMAIN view : TRUE
         IN [exc |-> NoExc,
             pending |-> [i \in DOMAIN pending \cup {found} |->
                             IF i = found THEN update(view[found], entry, kwargs)
                             ELSE pending[i]]]

\* A create_entry that leaves a row it finds as it is.
create_entry_no_update(view, pending, result, id, entry, kwargs) ==
    IF result = None
    THEN [exc |-> NoExc, pending |-> insert(pending, id, entry, kwargs)]
    ELSE [exc |-> NoExc, pending |-> pending]

\* create_entry, after the query: insert when there is no row, else update
\* the row found.  The result is the exception raised and the session's
\* uncommitted rows.
create_entry(view, pending, result, id, entry, kwargs) ==
    IF result = None
    THEN [exc |-> NoExc, pending |-> insert(pending, id, entry, kwargs)]
    ELSE [exc |-> NoExc,
          pending |-> [i \in DOMAIN pending \cup {result} |->
                          IF i = result THEN update(view[result], entry, kwargs)
                          ELSE pending[i]]]

\* A set_entry that inserts when the row is missing.
set_entry_upsert(view, pending, result, id, entry, kwargs) ==
    create_entry(view, pending, result, id, entry, kwargs)

\* set_entry, after the query: update on the row found; None has no update.
set_entry(view, pending, result, id, entry, kwargs) ==
    IF result = None
    THEN [exc |-> "AttributeError", pending |-> pending]
    ELSE [exc |-> NoExc,
          pending |-> [i \in DOMAIN pending \cup {result} |->
                          IF i = result THEN update(view[result], entry, kwargs)
                          ELSE pending[i]]]

\* A get_entry that converts the row whatever as_entry says.
get_entry_always_dict(view, result, as_entry_) ==
    IF result = None THEN [kind |-> "dict", id |-> None, entry |-> EmptyDict]
    ELSE [kind |-> "dict", id |-> None, entry |-> as_entry(view[result])]

\* get_entry, after the query: the entry dict, the row object, or {} when
\* there is no row.
get_entry(view, result, as_entry_) ==
    IF result = None THEN [kind |-> "dict", id |-> None, entry |-> EmptyDict]
    ELSE IF as_entry_ THEN [kind |-> "dict", id |-> None, entry |-> as_entry(view[result])]
    ELSE [kind |-> "row", id |-> result, entry |-> view[result]]

\* BaseMetaInformationTable: create_information and set_information pass
\* their arguments on to create_entry and set_entry, get_information to
\* get_entry.
delegate(op) ==
    CASE op = "create_information" -> "create_entry"
      [] op = "set_information" -> "set_entry"
      [] op = "get_information" -> "get_entry"
      [] OTHER -> op

Writers == {"create_entry", "set_entry", "create_information", "set_information"}
Readers == {"get_entry", "get_information"}

\* A table call starts.  With begin, session.begin() raises when the
\* session's transaction is already begun (by an earlier query); otherwise
\* the transaction is begun, by session.begin() or by the query itself, and
\* the query returns its first row.
Invoke(s, op, entry, kwargs, begin, as_entry_) ==
    /\ call[s].pc = "idle"
    /\ LET c == [NoCall EXCEPT !.op = op, !.begin = begin, !.as_entry = as_entry_,
                               !.entry = entry, !.kwargs = kwargs]
       IN IF begin /\ sess[s].in_tx
          THEN /\ call' = [call EXCEPT ![s] = [c EXCEPT !.exc = "InvalidRequestError"]]
               /\ UNCHANGED sess
          ELSE /\ \E r \in scalar(View(s)) :
                     call' = [call EXCEPT ![s] = [c EXCEPT !.pc = "selected", !.result = r]]
               /\ sess' = [sess EXCEPT ![s].in_tx = TRUE]
    /\ UNCHANGED table
    /\ UNCHANGED <<hvars, uvars>>

\* The exit of "with session.begin()": commit when the body returned,
\* rollback when it raised.
end_transaction(s, exc, pending) ==
    /\ sess' = [sess EXCEPT ![s] = NewSession]
    /\ table' = IF exc = NoExc
                THEN [i \in DOMAIN table \cup DOMAIN pending |->
                         IF i \in DOMAIN pending THEN pending[i] ELSE table[i]]
                ELSE table

\* create_entry / create_information, from the query's result on.
CreateEntry(s) ==
    /\ call[s].pc = "selected"
    /\ delegate(call[s].op) = "create_entry"
    /\ LET c == call[s]
           r == create_entry(View(s), sess[s].pending, c.result, FreshId, c.entry, c.kwargs)
       IN /\ call' = [call EXCEPT ![s] = [c EXCEPT !.pc = "idle", !.exc = r.exc]]
          /\ IF c.begin
             THEN end_transaction(s, r.exc, r.pending)
             ELSE /\ sess' = [sess EXCEPT ![s].pending = r.pending]
                  /\ UNCHANGED table
    /\ UNCHANGED <<hvars, uvars>>

\* set_entry / set_information, from the query's result on.
SetEntry(s) ==
    /\ call[s].pc = "selected"
    /\ delegate(call[s].op) = "set_entry"
    /\ LET c == call[s]
           r == set_entry(View(s), sess[s].pending, c.result, FreshId, c.entry, c.kwargs)
       IN /\ call' = [call EXCEPT ![s] = [c EXCEPT !.pc = "idle", !.exc = r.exc]]
          /\ IF c.begin
             THEN end_transaction(s, r.exc, r.pending)
             ELSE /\ sess' = [sess EXCEPT ![s].pending = r.pending]
                  /\ UNCHANGED table
    /\ UNCHANGED <<hvars, uvars>>

\* get_entry / get_information, from the query's result on.
GetEntry(s) ==
    /\ call[s].pc = "selected"
    /\ delegate(call[s].op) = "get_entry"
    /\ LET c == call[s]
       IN call' = [call EXCEPT ![s] =
                      [c EXCEPT !.pc = "idle",
                                !.ret = get_entry(View(s), c.result, c.as_entry)]]
    /\ UNCHANGED <<table, sess>>
    /\ UNCHANGED <<hvars, uvars>>

\* The caller commits the session's transaction.
Commit(s) ==
    /\ call[s].pc = "idle"
    /\ sess[s].in_tx
    /\ end_transaction(s, NoExc, sess[s].pending)
    /\ call' = [call EXCEPT ![s] = [NoCall EXCEPT !.op = "commit"]]
    /\ UNCHANGED <<hvars, uvars>>

\* The caller rolls the session's transaction back (or closes the session).
Rollback(s) ==
    /\ call[s].pc = "idle"
    /\ sess[s].in_tx
    /\ end_transaction(s, "rollback", sess[s].pending)
    /\ call' = [call EXCEPT ![s] = [NoCall EXCEPT !.op = "rollback"]]
    /\ UNCHANGED <<hvars, uvars>>

\* The steps of session s.
SessionNext(s) ==
    \/ \E op \in Writers, e \in Dicts, k \in Kwargs, b \in BOOLEAN :
          Invoke(s, op, e, k, b, FALSE)
    \/ \E op \in Readers, a \in BOOLEAN : Invoke(s, op, EmptyDict, EmptyDict, FALSE, a)
    \/ CreateEntry(s)
    \/ SetEntry(s)
    \/ GetEntry(s)
    \/ Commit(s)
    \/ Rollback(s)

\* One session works on the table.
NextTable == SessionNext("s1")

SpecTable == Init /\ [][NextTable]_vars

\* Two writers, each on its own session, call create_entry(begin=True) on
\* the initially empty table, with any interleaving of their queries and
\* their writes.
NextBegin ==
    \E s \in Sessions :
        \/ \E e \in [{"value"} -> Values], k \in Kwargs :
              Invoke(s, "create_entry", e, k, TRUE, FALSE)
        \/ CreateEntry(s)

SpecBegin == Init /\ [][NextBegin]_vars

\* Two writers on separate sessions, each on create_entry(begin=False) and
\* committing its session itself.
NextRace ==
    \E s \in Sessions :
        \/ \E e \in [{"value"} -> Values] :
              Invoke(s, "create_entry", e, EmptyDict, FALSE, FALSE)
        \/ CreateEntry(s)
        \/ Commit(s)

SpecRace == Init /\ [][NextRace]_vars

\* ================================================================= claims
\* The four references a closed handle is meant to have dropped.
AllNull(self) ==
    /\ self.engine = None
    /\ self.async_engine = None
    /\ self.session_maker = None
    /\ self.async_session_maker = None

AllSet(self) ==
    /\ self.engine # None
    /\ self.async_engine # None
    /\ self.session_maker # None
    /\ self.async_session_maker # None

SessionCalls == {"create_session", "create_async_session"}
ComponentSessionCalls == {"component.create_session", "component.create_async_session"}

\* C1: an open() that returns leaves is_open true with both engines and both
\* session factories set, from any state; close() leaves is_open false; and
\* close() on a handle that is already closed (is_open false) changes nothing
\* and returns true.
C1_Lifecycle ==
    [][/\ (last'.op = "open" /\ last'.exc = NoExc) => (is_open(db') /\ AllSet(db'))
       /\ (last'.op = "close") => (~is_open(db') /\ last'.exc = NoExc)
       /\ (last'.op = "close" /\ ~is_open(db)) => (db' = db /\ last'.flag)]_vars

\* C2: a create_file() that returns, called on a closed handle, leaves the
\* handle closed (is_open false).
C2_CreateFileLeavesClosed ==
    [][(last'.op = "create_file" /\ last'.exc = NoExc /\ ~is_open(db))
          => ~is_open(db')]_vars

\* C3: while the handle is not open, create_session and create_async_session,
\* called on the handle or through a component attached to it, with or
\* without arguments, raise IOError and leave the handle as it was.
C3_NotOpenGuard ==
    [][(/\ ~is_open(db)
        /\ \/ last'.op \in SessionCalls
           \/ (last'.op \in ComponentSessionCalls /\ composite = "alive"))
          => (/\ last'.exc = "IOError"
              /\ last'.session = NoSession
              /\ db' = db)]_vars

\* C3 witness: a component's no-argument create_session was refused on a
\* handle closed by close_async, whose synchronous factory is still set.
C3_Witness ==
    /\ last.op = "component.create_session"
    /\ ~last.has_args
    /\ last.exc = "IOError"
    /\ composite = "alive"
    /\ ~is_open(db)
    /\ db.session_maker # None

\* C4: close() and close_async() have the same effect: afterwards both
\* engines and both session factories are None, each engine that was set has
\* been disposed, and the call returned true.
C4_CloseSameEffect ==
    [][(last'.op \in {"close", "close_async"})
          => (/\ AllNull(db')
              /\ (db.engine # None => db.engine \in db'.disposed)
              /\ (db.async_engine # None => db.async_engine \in db'.async_disposed)
              /\ last'.flag)]_vars

\* C5: is_open is true exactly when both engines are set, and no operation
\* leaves exactly one of the two engines set.
C5_EnginesPaired ==
    /\ is_open(db) <=> (db.engine # None /\ db.async_engine # None)
    /\ (db.engine = None) <=> (db.async_engine = None)

\* C5 witness: create_file_async has built the engines on a handle that was
\* never opened (no session factory), and the pair is set together.
C5_Witness ==
    /\ last.op = "create_file_async"
    /\ last.exc = NoExc
    /\ db.engine # None
    /\ db.async_engine = db.engine
    /\ db.session_maker = None

\* C6: while is_open is true, a session call without arguments returns a
\* session made by the handle's factory, a call with arguments returns a
\* session built directly on the current engine, and neither raises.
C6_OpenSessions ==
    (last.op \in SessionCalls /\ is_open(db))
        => /\ last.exc = NoExc
           /\ last.has_args => (last.session.kind = "direct"
                                /\ last.session.engine = db.engine)
           /\ ~last.has_args => last.session.kind = "factory"

\* The call of session s1 before and after a step, and what s1 sees.
Before == call["s1"]
After == call'["s1"]
Seen == View("s1")
SeenAfter ==
    [i \in DOMAIN table' \cup DOMAIN sess'["s1"].pending |->
        IF i \in DOMAIN sess'["s1"].pending THEN sess'["s1"].pending[i] ELSE table'[i]]

\* The step completes a call that runs `op` (directly or through the
\* meta-information table).
Completes(op) ==
    /\ Before.pc = "selected"
    /\ After.pc = "idle"
    /\ delegate(Before.op) = op

\* The value the call's arguments give column k, if they give one.
Given(c, k) == k \in DOMAIN c.entry \cup DOMAIN c.kwargs
Arg(c, k) == IF k \in DOMAIN c.kwargs THEN c.kwargs[k] ELSE c.entry[k]

\* C7: through one session, whatever create_entry and set_entry calls are
\* made (any fields, begin true or false), the table never holds more than
\* one row, committed or as the session sees it.
C7_AtMostOneRow ==
    /\ Cardinality(DOMAIN table) <= 1
    /\ Cardinality(DOMAIN Seen) <= 1

\* C7 witness: a set_entry(begin=True) has updated and committed the row a
\* create_entry made: the table holds one row.
C7_Witness ==
    /\ call["s1"].op = "set_entry"
    /\ call["s1"].pc = "idle"
    /\ call["s1"].begin
    /\ call["s1"].exc = NoExc
    /\ Cardinality(DOMAIN table) = 1

C9_BeginIsAtomic ==
    /\ Cardinality(DOMAIN table) <= 1
    /\ (\A s \in Sessions : call[s].pc = "idle" /\ call[s].op = "create_entry")
          => Cardinality(DOMAIN table) = 1

\* C10: set_entry and set_information on a table with no row raise, with
\* begin true and false, and insert nothing: the table is still empty.
C10_SetEntryNeedsRow ==
    [][(Completes("set_entry") /\ DOMAIN Seen = {}) =>
          /\ After.exc # NoExc
          /\ DOMAIN SeenAfter = {}
          /\ table' = table]_vars

\* C10 witness: set_information(begin=True) has raised on the empty table.
C10_Witness ==
    /\ call["s1"].op = "set_information"
    /\ call["s1"].pc = "idle"
    /\ call["s1"].begin
    /\ call["s1"].exc = "AttributeError"
    /\ table = EmptyDict
    /\ ~sess["s1"].in_tx

\* C11: get_entry returns the row's entry mapping when as_entry is true and
\* the row object itself when as_entry is false, if a row exists; it returns
\* the empty mapping when no row exists, for both values of as_entry; and
\* neither its query nor its return changes the table or the rows the
\* session sees.
C11_GetEntry ==
    [][/\ (Before.pc = "idle" /\ After.pc = "selected" /\ delegate(After.op) = "get_entry")
            => (table' = table /\ SeenAfter = Seen)
       /\ Completes("get_entry") =>
            /\ table' = table
            /\ SeenAfter = Seen
            /\ After.exc = NoExc
            /\ Before.result = None =>
                  (After.ret.kind = "dict" /\ After.ret.entry = EmptyDict)
            /\ (Before.result # None /\ Before.as_entry) =>
                  /\ After.ret.kind = "dict"
                  /\ After.ret.entry = Seen[Before.result]
            /\ (Before.result # None /\ ~Before.as_entry) =>
                  /\ After.ret.kind = "row"
                  /\ After.ret.id = Before.result
                  /\ After.ret.id \in DOMAIN Seen]_vars

\* C11 witness: get_entry(as_entry=False) has returned the row object of the
\* one committed row.
C11_Witness ==
    /\ call["s1"].op = "get_entry"
    /\ call["s1"].pc = "idle"
    /\ ~call["s1"].as_entry
    /\ call["s1"].ret.kind = "row"
    /\ call["s1"].ret.id \in DOMAIN table

\* ------------------------------------------------- update-tracked table
\* The update ids of the rows.
update_ids(rows) == {rows[i]["update_id"] : i \in DOMAIN rows}

\* A get_last_update_id that takes the least update id.
get_first_update_id(rows) ==
    IF DOMAIN rows = {} THEN NoUpdateId
    ELSE CHOOSE m \in update_ids(rows) : \A u \in update_ids(rows) : m <= u

\* get_last_update_id(session): select max(update_id); the one row of the
\* result holds NULL when the table has no row.
get_last_update_id(rows) ==
    IF DOMAIN rows = {} THEN NoUpdateId
    ELSE CHOOSE m \in update_ids(rows) : \A u \in update_ids(rows) : m >= u

\* get_last_update_id_async(session): the same statement, awaited.
get_last_update_id_async(rows) ==
    IF DOMAIN rows = {} THEN NoUpdateId
    ELSE CHOOSE m \in update_ids(rows) : \A u \in update_ids(rows) : m >= u

\* BaseUpdateTable.as_entry(): the base entry with update_id added.
BaseUpdateTable_as_entry(row) ==
    LET entry == as_entry([k \in UpdateKeys \ {"update_id"} |-> row[k]])
    IN [k \in DOMAIN entry \cup {"update_id"} |->
           IF k = "update_id" THEN row["update_id"] ELSE entry[k]]

\* What comes back: the entries of the selected rows, or the result itself.
returned(rows, ids, as_entries) ==
    IF as_entries
    THEN [kind |-> "entries", ids |-> ids,
          entries |-> [i \in ids |-> BaseUpdateTable_as_entry(rows[i])]]
    ELSE [kind |-> "result", ids |-> ids, entries |-> EmptyDict]

\* A get_from_update that leaves the threshold itself out in both modes.
get_from_update_exclusive(rows, update_id, inclusive, as_entries) ==
    returned(rows, {i \in DOMAIN rows : rows[i]["update_id"] > update_id}, as_entries)

\* get_from_update(session, update_id, inclusive=True, as_entries=False)
get_from_update(rows, update_id, inclusive, as_entries) ==
    LET results ==
            IF inclusive
            THEN {i \in DOMAIN rows : rows[i]["update_id"] >= update_id}
            ELSE {i \in DOMAIN rows : rows[i]["update_id"] > update_id}
    IN returned(rows, results, as_entries)

\* get_from_update_async(session, update_id, inclusive=True, as_entries=False)
get_from_update_async(rows, update_id, inclusive, as_entries) ==
    LET results ==
            IF inclusive
            THEN {i \in DOMAIN rows : rows[i]["update_id"] >= update_id}
            ELSE {i \in DOMAIN rows : rows[i]["update_id"] > update_id}
    IN returned(rows, results, as_entries)

\* BaseUpdateTable.update(dict_, **kwargs): merges, then sets update_id when
\* the merge holds one that is not None; nothing else is assigned and the
\* base class's update is not called.
BaseUpdateTable_update(row, dict_, kwargs) ==
    LET d == merge(dict_, kwargs)
        update_id == IF "update_id" \in DOMAIN d THEN d["update_id"] ELSE NoUpdateId
    IN IF update_id # NoUpdateId
       THEN [row EXCEPT !["update_id"] = update_id]
       ELSE row

\* A new row of the update-tracked table: the merged fields as its columns,
\* update_id taking the column's default when none is given.
insert_tracked(rows, dict_, kwargs) ==
    LET d == merge(dict_, kwargs)
        given == "update_id" \in DOMAIN d /\ d["update_id"] # NoUpdateId
        row == [k \in UpdateKeys |->
                   IF k = "update_id"
                   THEN (IF given THEN d[k] ELSE default_update_id)
                   ELSE (IF k \in DOMAIN d THEN d[k] ELSE None)]
        id == Cardinality(DOMAIN rows) + 1
    IN [i \in DOMAIN rows \cup {id} |-> IF i = id THEN row ELSE rows[i]]

InsertTracked(dict_, kwargs) ==
    /\ Cardinality(DOMAIN urows) < MaxRows
    /\ urows' = insert_tracked(urows, dict_, kwargs)
    /\ ucall' = [NoUpdateCall EXCEPT !.op = "insert", !.dict_ = dict_, !.kwargs = kwargs]
    /\ UNCHANGED <<hvars, tvars>>

UpdateTracked(i, dict_, kwargs) ==
    /\ i \in DOMAIN urows
    /\ urows' = [urows EXCEPT ![i] = BaseUpdateTable_update(urows[i], dict_, kwargs)]
    /\ ucall' = [NoUpdateCall EXCEPT !.op = "update", !.row = i, !.dict_ = dict_,
                                     !.kwargs = kwargs, !.before = urows[i]]
    /\ UNCHANGED <<hvars, tvars>>

GetLastUpdateId ==
    /\ ucall' = [NoUpdateCall EXCEPT !.op = "get_last_update_id",
                                     !.last_id = get_last_update_id(urows)]
    /\ UNCHANGED <<hvars, tvars, urows>>

GetLastUpdateIdAsync ==
    /\ ucall' = [NoUpdateCall EXCEPT !.op = "get_last_update_id", !.is_async = TRUE,
                                     !.last_id = get_last_update_id_async(urows)]
    /\ UNCHANGED <<hvars, tvars, urows>>

GetFromUpdate(update_id, inclusive, as_entries) ==
    /\ ucall' = [NoUpdateCall EXCEPT
                    !.op = "get_from_update", !.update_id = update_id,
                    !.inclusive = inclusive, !.as_entries = as_entries,
                    !.ret = get_from_update(urows, update_id, inclusive, as_entries)]
    /\ UNCHANGED <<hvars, tvars, urows>>

GetFromUpdateAsync(update_id, inclusive, as_entries) ==
    /\ ucall' = [NoUpdateCall EXCEPT
                    !.op = "get_from_update", !.is_async = TRUE, !.update_id = update_id,
                    !.inclusive = inclusive, !.as_entries = as_entries,
                    !.ret = get_from_update_async(urows, update_id, inclusive, as_entries)]
    /\ UNCHANGED <<hvars, tvars, urows>>

NextUpdate ==
    \/ \E d \in UpdateDicts, k \in UpdateKwargs : InsertTracked(d, k)
    \/ \E i \in 1..MaxRows, d \in UpdateDicts, k \in UpdateKwargs : UpdateTracked(i, d, k)
    \/ GetLastUpdateId
    \/ GetLastUpdateIdAsync
    \/ \E t \in Thresholds, inclusive \in BOOLEAN, as_entries \in BOOLEAN :
           GetFromUpdate(t, inclusive, as_entries)
    \/ \E t \in Thresholds, inclusive \in BOOLEAN, as_entries \in BOOLEAN :
           GetFromUpdateAsync(t, inclusive, as_entries)

SpecUpdate == Init /\ [][NextUpdate]_vars

\* The rows whose update id is at least t, and those whose update id is above t.
AtLeast(t) == {i \in DOMAIN urows : urows[i]["update_id"] >= t}
Above(t) == {i \in DOMAIN urows : urows[i]["update_id"] > t}

\* C12: get_from_update(T, inclusive=True) returns exactly the rows whose
\* update_id is at least T and get_from_update(T, inclusive=False) exactly
\* those whose update_id is above T, in the synchronous and the asynchronous
\* variant alike, as the result itself or as the list of the rows' entries.
C12_GetFromUpdate ==
    ucall.op = "get_from_update" =>
        /\ ucall.ret.ids = IF ucall.inclusive THEN AtLeast(ucall.update_id)
                           ELSE Above(ucall.update_id)
        /\ ucall.ret.kind = IF ucall.as_entries THEN "entries" ELSE "result"
        /\ ucall.as_entries =>
              /\ DOMAIN ucall.ret.entries = ucall.ret.ids
              /\ \A i \in ucall.ret.ids :
                     ucall.ret.entries[i]["update_id"] = urows[i]["update_id"]

\* An inclusive query that returned a row sitting exactly on the threshold
\* and left a row below it out.
C12_Witness ==
    /\ ucall.op = "get_from_update"
    /\ ucall.inclusive
    /\ \E i \in ucall.ret.ids : urows[i]["update_id"] = ucall.update_id
    /\ \E i \in DOMAIN urows : i \notin ucall.ret.ids

\* C13: get_last_update_id returns the greatest update_id of the rows, or
\* None when the table has no row; on a table with rows and L the value it
\* returned, get_from_update(L, inclusive=True) returns some row and
\* get_from_update(L, inclusive=False) returns none.
C13_LastUpdateId ==
    ucall.op = "get_last_update_id" =>
        LET L == ucall.last_id
        IN IF DOMAIN urows = {}
           THEN L = NoUpdateId
           ELSE /\ L \in update_ids(urows)
                /\ \A i \in DOMAIN urows : urows[i]["update_id"] <= L
                /\ get_from_update(urows, L, TRUE, FALSE).ids # {}
                /\ get_from_update(urows, L, FALSE, FALSE).ids = {}
                /\ get_from_update_async(urows, L, TRUE, TRUE).ids # {}
                /\ get_from_update_async(urows, L, FALSE, TRUE).ids = {}

\* get_last_update_id answered on a table whose rows carry different update
\* ids, the greatest not on the last row inserted.
C13_Witness ==
    /\ ucall.op = "get_last_update_id"
    /\ Cardinality(update_ids(urows)) > 1
    /\ ucall.last_id = urows[1]["update_id"]
    /\ ucall.last_id > default_update_id

\* The fields update was given, the keyword arguments winning.
Merged == merge(ucall.dict_, ucall.kwargs)

\* C18: update(mapping, **overrides) on an update-tracked row sets every
\* merged field on the row's column of that name, the overrides winning,
\* sets update_id to the merged update_id when there is one and leaves it
\* alone when there is none; columns the merge does not name keep their value.
C18_Update ==
    ucall.op = "update" =>
        \A k \in UpdateKeys :
            urows[ucall.row][k] =
                IF k \in DOMAIN Merged /\ Merged[k] # NoUpdateId
                THEN Merged[k]
                ELSE ucall.before[k]

C20_Construct ==
    [][\A p \in Paths \cup {NoPath}, sch \in BOOLEAN, t \in Registries \cup {NoTables},
          open_ \in BOOLEAN, create \in BOOLEAN :
          (Construct(p, sch, t, open_, create) /\ last'.exc = NoExc) =>
              /\ is_open(db') = open_
              /\ IF open_ THEN AllSet(db') ELSE AllNull(db')
              /\ create => db'.path \in db'.files]_vars

\* A handle constructed with create and without open_: its file is
\* bootstrapped and it is closed.
C20_Witness ==
    /\ last.op = "construct"
    /\ last.exc = NoExc
    /\ db.path \in db.files
    /\ AllNull(db)

\* C19: whenever a session factory is set it is bound to the handle's
\* current engine of its kind, which is bound to the current path; so a
\* session made without arguments and one made with arguments are on the
\* same engine, the handle's current one.  Stated after calls that returned.
C19_FactoryOnCurrentEngine ==
    last.exc = NoExc =>
    /\ db.session_maker # None =>
          /\ db.session_maker = db.engine
          /\ db.urls[db.session_maker] = db.path
    /\ db.async_session_maker # None =>
          /\ db.async_session_maker = db.async_engine
          /\ db.urls[db.async_session_maker] = db.path
    /\ (last.op \in SessionCalls /\ last.exc = NoExc) =>
          last.session.engine =
              IF last.session.async THEN db.async_engine ELSE db.engine

\* ------------------------------------------- update-tracked table component
\* BaseDatabaseComponent.tables: self._composite().tables, None when the call
\* raises TypeError.  A None _composite is not callable (TypeError); a dead
\* reference returns None, which has no tables (AttributeError).
component_tables(ref, self) ==
    IF ref = "None" THEN [exc |-> NoExc, is_none |-> TRUE, tables |-> {}]
    ELSE IF ref = "dead" THEN [exc |-> "AttributeError", is_none |-> FALSE, tables |-> {}]
    ELSE [exc |-> NoExc, is_none |-> FALSE, tables |-> self.tables]

ComponentTables ==
    /\ phase \in {"live", "collected"}
    /\ LET r == component_tables(composite, db)
       IN last' = Call("component.tables", FALSE, r.exc, r.is_none, NoSession)
    /\ UNCHANGED <<db, phase, composite>>
    /\ UNCHANGED <<tvars, uvars>>

\* The statement a session executes fails when the file its engine is bound
\* to holds no tables.
execute(self, session) ==
    IF self.urls[session.engine] \in self.files THEN NoExc ELSE "OperationalError"

\* with self.create_session() as session: return self.table.<call>(session)
\* r is what create_session returned or raised; the with statement closes
\* the session when the body returns and when it raises.
scoped(self, r) ==
    IF r.exc # NoExc
    THEN [exc |-> r.exc, created |-> 0, closed |-> 0]
    ELSE [exc |-> execute(self, r.session), created |-> 1, closed |-> 1]

\* The call made on a session the caller passed in: nothing is created or
\* closed here.
unscoped == [exc |-> NoExc, created |-> 0, closed |-> 0]

\* BaseUpdateTableComponent.get_last_update_id(session=None)
component_get_last_update_id(ref, self, rows, has_session) ==
    LET c == IF has_session THEN unscoped
             ELSE scoped(self, component_create_session(ref, self, FALSE))
    IN [NoUpdateCall EXCEPT
           !.op = "component.get_last_update_id", !.has_session = has_session,
           !.exc = c.exc, !.created = c.created, !.closed = c.closed,
           !.last_id = IF c.exc = NoExc THEN get_last_update_id(rows) ELSE NoUpdateId]

\* BaseUpdateTableComponent.get_last_update_id_async(session=None)
component_get_last_update_id_async(ref, self, rows, has_session) ==
    LET c == IF has_session THEN unscoped
             ELSE scoped(self, component_create_async_session(ref, self, FALSE))
    IN [NoUpdateCall EXCEPT
           !.op = "component.get_last_update_id", !.is_async = TRUE,
           !.has_session = has_session,
           !.exc = c.exc, !.created = c.created, !.closed = c.closed,
           !.last_id = IF c.exc = NoExc THEN get_last_update_id_async(rows)
                       ELSE NoUpdateId]

\* BaseUpdateTableComponent.get_from_update(update_id, session=None,
\* inclusive=True, as_entries=False)
component_get_from_update(ref, self, rows, update_id, has_session, inclusive, as_entries) ==
    LET c == IF has_session THEN unscoped
             ELSE scoped(self, component_create_session(ref, self, FALSE))
    IN [NoUpdateCall EXCEPT
           !.op = "component.get_from_update", !.has_session = has_session,
           !.update_id = update_id, !.inclusive = inclusive, !.as_entries = as_entries,
           !.exc = c.exc, !.created = c.created, !.closed = c.closed,
           !.ret = IF c.exc = NoExc
                   THEN get_from_update(rows, update_id, inclusive, as_entries)
                   ELSE NoResult]

\* BaseUpdateTableComponent.get_from_update_async(update_id, session=None,
\* inclusive=True, as_entries=False)
component_get_from_update_async(ref, self, rows, update_id, has_session, inclusive, as_entries) ==
    LET c == IF has_session THEN unscoped
             ELSE scoped(self, component_create_async_session(ref, self, FALSE))
    IN [NoUpdateCall EXCEPT
           !.op = "component.get_from_update", !.is_async = TRUE,
           !.has_session = has_session,
           !.update_id = update_id, !.inclusive = inclusive, !.as_entries = as_entries,
           !.exc = c.exc, !.created = c.created, !.closed = c.closed,
           !.ret = IF c.exc = NoExc
                   THEN get_from_update_async(rows, update_id, inclusive, as_entries)
                   ELSE NoResult]

\* A component call: the handle and the rows stay as they are.
Answered(c) ==
    /\ phase \in {"live", "collected"}
    /\ ucall' = c
    /\ last' = Call(c.op, c.has_session, c.exc, FALSE, NoSession)
    /\ UNCHANGED <<db, phase, composite, urows>>
    /\ UNCHANGED tvars

ComponentGetLastUpdateId(has_session) ==
    Answered(component_get_last_update_id(composite, db, urows, has_session))

ComponentGetLastUpdateIdAsync(has_session) ==
    Answered(component_get_last_update_id_async(composite, db, urows, has_session))

ComponentGetFromUpdate(update_id, has_session, inclusive, as_entries) ==
    Answered(component_get_from_update(composite, db, urows, update_id,
                                       has_session, inclusive, as_entries))

ComponentGetFromUpdateAsync(update_id, has_session, inclusive, as_entries) ==
    Answered(component_get_from_update_async(composite, db, urows, update_id,
                                             has_session, inclusive, as_entries))

\* A handle, a component attached to it, and the component's calls.
NextComponent ==
    \/ \E p \in Paths \cup {NoPath}, sch \in BOOLEAN, o \in BOOLEAN, c \in BOOLEAN :
          \E t \in Registries : Construct(p, sch, t, o, c)
    \/ \E p \in Paths \cup {NoPath} : CreateFile(p)
    \/ Open
    \/ Close
    \/ Attach
    \/ Collect
    \/ ComponentTables
    \/ \E s \in BOOLEAN : ComponentGetLastUpdateId(s)
    \/ \E s \in BOOLEAN : ComponentGetLastUpdateIdAsync(s)
    \/ \E s \in BOOLEAN, as_entries \in BOOLEAN :
          ComponentGetFromUpdate(default_update_id, s, TRUE, as_entries)
    \/ \E s \in BOOLEAN, as_entries \in BOOLEAN :
          ComponentGetFromUpdateAsync(default_update_id, s, TRUE, as_entries)

SpecComponent == Init /\ [][NextComponent]_vars

\* C16: the tables of a component whose owner is absent, its back-reference
\* never set or its owner gone, are None; reading them raises nothing.
C16_TablesWithoutOwner ==
    (last.op = "component.tables" /\ composite \in {"None", "dead"}) =>
        /\ last.exc = NoExc
        /\ last.flag

ComponentUpdateCalls == {"component.get_last_update_id", "component.get_from_update"}

\* C15: a get_last_update_id or get_from_update of a component with an
\* owner, synchronous or asynchronous, called without a session, creates
\* exactly one session through the owner and has closed it when it returns
\* or raises; on an owner that is not open it raises the not-open IOError
\* and creates no session.
C15_ScopedSession ==
    (/\ last.op \in ComponentUpdateCalls
     /\ ucall.op = last.op
     /\ ~ucall.has_session
     /\ composite = "alive")
        => IF is_open(db)
           THEN ucall.created = 1 /\ ucall.closed = 1
           ELSE ucall.exc = "IOError" /\ ucall.created = 0

\* C17: with begin=False the check and the write of create_entry are not
\* one step: a writer whose query saw no row inserts a row whatever has
\* been committed since, so two writers on separate sessions that both saw
\* an empty table both insert, and the table ends with two rows.
C17_CheckThenActRace ==
    [][\A s \in Sessions :
          (/\ call[s].pc = "selected"
           /\ call'[s].pc = "idle"
           /\ call[s].op = "create_entry"
           /\ ~call[s].begin
           /\ call[s].result = None)
          => /\ call'[s].exc = NoExc
             /\ \E i \in DOMAIN sess'[s].pending :
                    /\ i \notin DOMAIN table \cup DOMAIN sess[s].pending
                    /\ DOMAIN sess'[s].pending = DOMAIN sess[s].pending \cup {i}
             /\ table' = table]_vars

\* Both writers saw no row, both inserted and both committed: two rows.
C17_Witness ==
    /\ Cardinality(DOMAIN table) = 2
    /\ \A s \in Sessions : call[s].op = "commit" /\ ~sess[s].in_tx

====
